---- MODULE Spec2Model ----
(***************************************************************************)
(* Model of the Meteora liquidity rebalancer: the MeteoraRebalancer class  *)
(* (retry executor, pool metadata resolver, balance accessor, range        *)
(* sizing, asset balancer, position lifecycle, decision cycle) and the     *)
(* start-up script that drives it.  Every await of the code is one step;   *)
(* the wallet, the pool and the swap service are the environment.          *)
(*                                                                         *)
(* Amounts are integers counted in hundredths of a token (0.1 is 10), the  *)
(* smallest unit the modelled wallet holds; quantities the code computes   *)
(* by division are exact fractions [n, d].                                 *)
(***************************************************************************)
EXTENDS Integers, Sequences, FiniteSets, TLC

(* ------------------------------------------------------------------ *)
(* Program constants                                                   *)
(* ------------------------------------------------------------------ *)
METERORA_MAX_BINS_PER_SIDE == 34
NATIVE_TOKEN_FEE_BUFFER == 10
NATIVE_TOKEN_MIN_BALANCE == 1
DefaultRetries == 5
LoadPositionsRetries == 3
AddPositionsRetries == 10
BasisPoints == 10000

(* ------------------------------------------------------------------ *)
(* Bounds of the model                                                 *)
(* ------------------------------------------------------------------ *)
MaxRetries == 4
MaxPositions == 2

(* ------------------------------------------------------------------ *)
(* Values                                                              *)
(* ------------------------------------------------------------------ *)
\* Optional values: None, or Some(v).
None == <<>>
Some(v) == <<v>>
NoError == "no error"

\* Messages of the errors the collaborators raise.
MsgTransient == "Network request failed"
MsgFunds == "Transaction failed: insufficient funds"
MsgNoPositions == "No positions found in this pool"
MsgBadRequest == "Bad request"
ExternalErrors == {MsgTransient, MsgFunds, MsgNoPositions, MsgBadRequest}

\* Messages of the errors the program itself raises.
MsgInsufficientFunds == "Insufficient funds"
MsgPoolDetails == "Failed to get pool details for pool"
MsgFeeBuffer == "Insufficient native token balance for position creation fees"
MsgRangeEnv == "METEORA_POSITION_RANGE_PER_SIDE_RELATIVE must be set and be a valid number"
MsgConfig == "required environment variable is not set"
MsgDefaultRpc == "Using default Solana RPC URL which is known to have issues"
MsgNotInitialized == "Pool details not initialized"

\* String.prototype.includes on the messages above (case sensitive).
Includes(msg, sub) ==
    \/ msg = sub
    \/ msg = MsgFunds /\ sub = "insufficient funds"
    \/ msg = MsgFeeBuffer /\ sub = "Insufficient native token balance"

\* A variant of ToLowerCase that leaves the symbol as it is.
ToLowerCaseIdentity(s) == s

\* String.prototype.toLowerCase on the asset symbols of the model.
ToLowerCase(s) ==
    CASE s = "SOL" -> "sol"
      [] s = "Sol" -> "sol"
      [] s = "sol" -> "sol"
      [] s = "USDC" -> "usdc"
      [] s = "BONK" -> "bonk"
      [] OTHER -> s

Max(a, b) == IF a >= b THEN a ELSE b
Min(a, b) == IF a <= b THEN a ELSE b

\* Exact fractions n/d, d > 0.
Rat(n, d) == [n |-> n, d |-> d]
RatOfInt(i) == Rat(i, 1)
RatDivInt(r, k) == Rat(r.n, r.d * k)
RatSub(r, s) == Rat(r.n * s.d - s.n * r.d, r.d * s.d)
RatGT(r, s) == r.n * s.d > s.n * r.d
RatEq(r, s) == r.n * s.d = s.n * r.d
RatFloor(r) == r.n \div r.d
\* Math.ceil of n/d for d > 0.
CeilDiv(n, d) == -((-n) \div d)

Last(s) == s[Len(s)]
Front(s) == SubSeq(s, 1, Len(s) - 1)

(* ------------------------------------------------------------------ *)
(* State                                                               *)
(* ------------------------------------------------------------------ *)
VARIABLES
    \* control: the label of the next step, the return labels of the
    \* callers, the error in flight or caught, the process exit status
    pc, stack, error, exitCode,
    \* MeteoraRebalancer fields
    poolDetails, currLowerBinId, currUpperBinId, meteoraRangeInterval,
    \* locals of the running functions
    attempt, lastResult, balances, activeBin, swapPlan,
    \* environment: process.env, the pool metadata service, the pool's
    \* positions (newest last) and whether the newest is visible to
    \* queries yet, the pool's active bin, the wallet
    config, pool, positions, visible, activeBinId, wallet,
    \* retry executor on its own: configured attempts, invocations made,
    \* delays waited, the outcomes the operation produced
    retries, invocations, delays, outcomes,
    \* observations of the current top-level call (loadInitialState at
    \* start-up, or one decision cycle) and the result of the last one
    ops, anyFail, alerts, obs, ret

ctlVars == <<pc, stack, error, exitCode, ret>>
objVars == <<poolDetails, currLowerBinId, currUpperBinId, meteoraRangeInterval>>
rangeVars == <<currLowerBinId, currUpperBinId>>
localVars == <<attempt, lastResult, balances, activeBin, swapPlan>>
envVars == <<config, pool, positions, visible, activeBinId, wallet>>
ledgerVars == <<positions, visible, wallet>>
retryVars == <<retries, invocations, delays, outcomes>>
histVars == <<ops, anyFail, alerts, obs>>
vars == <<pc, stack, error, exitCode, ret, poolDetails, currLowerBinId,
          currUpperBinId, meteoraRangeInterval, attempt, lastResult,
          balances, activeBin, swapPlan, config, pool, positions, visible,
          activeBinId, wallet, retries, invocations, delays, outcomes, ops,
          anyFail, alerts, obs>>

(* ------------------------------------------------------------------ *)
(* Environment values                                                  *)
(* ------------------------------------------------------------------ *)
Mints == {"SOL", "USDC", "BONK"}
NativeMint == "SOL"

\* What the metadata service answers for the pool: name is the market
\* identifier as the list of its pieces, "-" being the separator.
PoolSolUsdc ==
    [name |-> <<"SOL", "-", "USDC">>, bin_step |-> 25, mint_x |-> "SOL", mint_y |-> "USDC"]
PoolBonkUsdc ==
    [name |-> <<"BONK", "-", "USDC">>, bin_step |-> 25, mint_x |-> "BONK", mint_y |-> "USDC"]
\* A pool whose second asset is the native one, its symbol in mixed case.
PoolUsdcSol ==
    [name |-> <<"USDC", "-", "Sol">>, bin_step |-> 25, mint_x |-> "USDC", mint_y |-> "SOL"]
Pools == {PoolSolUsdc, PoolBonkUsdc, PoolUsdcSol}

ActiveBins == {100, 120, 150}
\* pricePerToken of the active bin, asset B per asset A, in whole units: it
\* rises with the bin, slowly (adjacent bins are 25 basis points apart), and
\* is the same over ActiveBins.
PriceOf(binId) == (binId + 20) \div 60

Position(lo, hi, a, b) == [lowerBinId |-> lo, upperBinId |-> hi, a |-> a, b |-> b]
Wallet(sol, usdc, bonk) == [m \in Mints |->
    IF m = "SOL" THEN sol ELSE IF m = "USDC" THEN usdc ELSE bonk]

\* The ledgers the agent is started on: the pool, the wallet and the
\* positions already open on the pool.
Ledger(p, w, ps) == [pool |-> p, wallet |-> w, positions |-> ps]
InitLedgers ==
    { Ledger(PoolSolUsdc, Wallet(12, 0, 0), <<>>),
      Ledger(PoolSolUsdc, Wallet(10, 0, 0), <<Position(100, 120, 3, 1)>>),
      Ledger(PoolSolUsdc, Wallet(5, 0, 0), <<Position(100, 120, 0, 1)>>),
      Ledger(PoolBonkUsdc, Wallet(12, 0, 2), <<>>),
      Ledger(PoolBonkUsdc, Wallet(5, 0, 2), <<>>),
      Ledger(PoolBonkUsdc, Wallet(5, 1, 1),
             <<Position(100, 120, 1, 2), Position(130, 170, 1, 0)>>) }

\* process.env: the three required values and the range fraction, which is
\* unset, not a number, or the fraction n/d.
RangeUnset == [kind |-> "unset", n |-> 0, d |-> 1]
RangeNaN == [kind |-> "NaN", n |-> 0, d |-> 1]
RangeNum(n, d) == [kind |-> "num", n |-> n, d |-> d]
Config(key, addr, rpc, range) ==
    [key |-> key, poolAddress |-> addr, rpc |-> rpc, range |-> range]
GoodConfig == Config(TRUE, TRUE, "custom", RangeNum(5, 100))
BadConfigs ==
    { Config(FALSE, TRUE, "custom", RangeNum(5, 100)),
      Config(TRUE, FALSE, "custom", RangeNum(5, 100)),
      Config(TRUE, TRUE, "unset", RangeNum(5, 100)),
      Config(TRUE, TRUE, "default", RangeNum(5, 100)),
      Config(TRUE, TRUE, "custom", RangeUnset),
      Config(TRUE, TRUE, "custom", RangeNaN) }

NoDetails ==
    [resolved |-> FALSE, binStep |-> 0, assetAMintAddress |-> "", assetBMintAddress |-> "",
     assetASymbol |-> "", assetBSymbol |-> ""]
NoBalances == [A |-> 0, B |-> 0]
NoAmount == Rat(0, 1)
NoPlan == [dir |-> "none", amount |-> NoAmount]
\* decision: what the range test of the cycle found ("in", "out");
\* found: what the position query of loadInitialState returned ("empty", "some");
\* lastPoll: how the latest attempt of a position query ended ("error",
\* "empty", "nonempty"); polled: what the query returned ("empty", "seen");
\* cacheLower, cacheUpper: the cached range when add-liquidity succeeded;
\* caught: the error the catch of rebalance() caught; loads: how many times
\* that catch has called loadInitialState().
NoObs == [decision |-> "none", found |-> "none", lastPoll |-> "none", polled |-> "none",
          cacheLower |-> 0, cacheUpper |-> 0, caught |-> NoError, loads |-> 0]
NoRet == [fn |-> "none", value |-> "none"]

(* ------------------------------------------------------------------ *)
(* Control: calls, returns and exceptions                              *)
(* ------------------------------------------------------------------ *)
\* The catch block that guards a label: the try of rebalance(), the try of
\* runRebalanceLoop, the try of main.
HandlerOf(label) ==
    CASE label \in {"rb_getActiveBin", "rb_call_rp", "rb_verify", "rb_return_true"} -> "rb_catch"
      [] label = "loop_ret" -> "loop_catch"
      [] label \in {"main_validate", "main_construct", "main_after_load"} -> "main_catch"
      [] label = "api_ret" -> "api_catch"
      [] OTHER -> "none"

Goto(l) == pc' = l /\ UNCHANGED <<stack, error, exitCode, ret>>
Call(entry, retLabel) ==
    pc' = entry /\ stack' = Append(stack, retLabel) /\ UNCHANGED <<error, exitCode, ret>>
\* The top-level call (stack depth one) leaves its result in ret, which is
\* kept, with the observations of the call, until the caller has resumed.
Return(fn, v) ==
    /\ pc' = Last(stack)
    /\ stack' = Front(stack)
    /\ ret' = IF Len(stack) = 1 THEN [fn |-> fn, value |-> v] ELSE ret
    /\ UNCHANGED <<error, exitCode>>
Throw(err) ==
    LET frames == Append(stack, pc)
        idx == CHOOSE i \in 1..Len(frames) :
                  /\ HandlerOf(frames[i]) # "none"
                  /\ \A j \in (i+1)..Len(frames) : HandlerOf(frames[j]) = "none"
    IN  /\ pc' = HandlerOf(frames[idx])
        /\ stack' = SubSeq(stack, 1, idx - 1)
        /\ error' = err
        /\ ret' = IF HandlerOf(frames[idx]) = "rb_catch" THEN ret
                  ELSE [fn |-> CASE HandlerOf(frames[idx]) = "loop_catch" -> "rebalance"
                                 [] HandlerOf(frames[idx]) = "main_catch" -> "main"
                                 [] OTHER -> "call",
                        value |-> "threw"]
        /\ UNCHANGED exitCode

ClearLocals ==
    /\ attempt' = 0
    /\ lastResult' = <<>>
    /\ balances' = NoBalances
    /\ activeBin' = None
    /\ swapPlan' = NoPlan

Alert(type, tag) == alerts' = alerts \cup {<<type, tag>>}
Fail == anyFail' = TRUE

(* ------------------------------------------------------------------ *)
(* Retry executor                                                      *)
(* ------------------------------------------------------------------ *)
Ok == [ok |-> TRUE, msg |-> NoError]
Err(m) == [ok |-> FALSE, msg |-> m]
\* The outcomes of one call of a collaborator: the wallet's balance query,
\* the pool's queries, the pool's transactions, the swap service.
Outcomes(errors) == {Ok} \cup {Err(m) : m \in errors}
WalletOutcomes == Outcomes({MsgTransient})
ActiveBinOutcomes == Outcomes({MsgTransient, MsgNoPositions})
PositionsOutcomes == Outcomes({MsgTransient, MsgFunds})
AddOutcomes == Outcomes({MsgTransient, MsgFunds})
RemoveOutcomes == Outcomes({MsgTransient, MsgFunds, MsgNoPositions})
SwapOutcomes == Outcomes({MsgTransient, MsgFunds, MsgBadRequest})

\* Variants of RetryStep: without the test for a funds error, and with one
\* attempt too many.
RetryStepNoFunds(att, n, out) ==
    IF out.ok
    THEN [kind |-> "return", err |-> NoError, attempt |-> att, delayed |-> FALSE]
    ELSE IF att < n - 1
    THEN [kind |-> "again", err |-> out.msg, attempt |-> att + 1, delayed |-> TRUE]
    ELSE [kind |-> "throw", err |-> out.msg, attempt |-> att + 1, delayed |-> FALSE]
RetryStepExtra(att, n, out) ==
    IF out.ok
    THEN [kind |-> "return", err |-> NoError, attempt |-> att, delayed |-> FALSE]
    ELSE IF Includes(out.msg, "insufficient funds")
    THEN [kind |-> "throw", err |-> MsgInsufficientFunds, attempt |-> att, delayed |-> FALSE]
    ELSE IF att < n
    THEN [kind |-> "again", err |-> out.msg, attempt |-> att + 1, delayed |-> TRUE]
    ELSE [kind |-> "throw", err |-> out.msg, attempt |-> att + 1, delayed |-> FALSE]

\* One pass of the loop of retry(): the attempt `att` (from 0) of `n` ended
\* with outcome `out`.  kind is "return" (the result is returned), "throw"
\* (err is raised) or "again" (the delay is waited, then the next attempt).
RetryStep(att, n, out) ==
    IF out.ok
    THEN [kind |-> "return", err |-> NoError, attempt |-> att, delayed |-> FALSE]
    ELSE IF Includes(out.msg, "insufficient funds")
    THEN [kind |-> "throw", err |-> MsgInsufficientFunds, attempt |-> att, delayed |-> FALSE]
    ELSE IF att < n - 1
    THEN [kind |-> "again", err |-> out.msg, attempt |-> att + 1, delayed |-> TRUE]
    ELSE [kind |-> "throw", err |-> out.msg, attempt |-> att + 1, delayed |-> FALSE]

\* A variant of PollStep that polls once more than asked.
PollStepExtra(att, n, out, list, lastRes) ==
    LET last == IF out.ok THEN list ELSE lastRes
    IN  IF out.ok /\ Len(list) > 0
        THEN [kind |-> "return", err |-> NoError, value |-> list, attempt |-> att,
              lastResult |-> lastRes, delayed |-> FALSE]
        ELSE IF ~out.ok /\ Includes(out.msg, "insufficient funds")
        THEN [kind |-> "throw", err |-> MsgInsufficientFunds, value |-> <<>>,
              attempt |-> att, lastResult |-> lastRes, delayed |-> FALSE]
        ELSE IF att < n
        THEN [kind |-> "again", err |-> NoError, value |-> <<>>, attempt |-> att + 1,
              lastResult |-> last, delayed |-> TRUE]
        ELSE [kind |-> "return", err |-> NoError, value |-> last, attempt |-> att + 1,
              lastResult |-> last, delayed |-> FALSE]

\* One pass of the loop of retryGetPositions(): the query of attempt `att`
\* of `n` ended with `out`, returning `list` when it succeeded.
PollStep(att, n, out, list, lastRes) ==
    LET last == IF out.ok THEN list ELSE lastRes
    IN  IF out.ok /\ Len(list) > 0
        THEN [kind |-> "return", err |-> NoError, value |-> list, attempt |-> att,
              lastResult |-> lastRes, delayed |-> FALSE]
        ELSE IF ~out.ok /\ Includes(out.msg, "insufficient funds")
        THEN [kind |-> "throw", err |-> MsgInsufficientFunds, value |-> <<>>,
              attempt |-> att, lastResult |-> lastRes, delayed |-> FALSE]
        ELSE IF att < n - 1
        THEN [kind |-> "again", err |-> NoError, value |-> <<>>, attempt |-> att + 1,
              lastResult |-> last, delayed |-> TRUE]
        ELSE [kind |-> "return", err |-> NoError, value |-> last, attempt |-> att + 1,
              lastResult |-> last, delayed |-> FALSE]

PollKind(out, list) ==
    IF ~out.ok THEN "error" ELSE IF Len(list) > 0 THEN "nonempty" ELSE "empty"

\* Variants of AdoptRange: the upper bound taken from the lower, and the
\* last listed position taken instead of the first.
AdoptRangeLowerOnly(list) == [lower |-> list[1].lowerBinId, upper |-> list[1].lowerBinId]
AdoptRangeLast(list) ==
    [lower |-> list[Len(list)].lowerBinId, upper |-> list[Len(list)].upperBinId]

\* A variant of AdoptRange that takes the two bounds from different positions.
AdoptRangeMixed(list) ==
    [lower |-> list[1].lowerBinId, upper |-> list[Len(list)].upperBinId]

\* The cached range taken from a listed position: the first one.
AdoptRange(list) == [lower |-> list[1].lowerBinId, upper |-> list[1].upperBinId]

\* What a position query may answer: every position, or, while the newest
\* position is not visible yet, the positions without it.
Views == {positions} \cup
         (IF ~visible /\ Len(positions) > 0 THEN {Front(positions)} ELSE {})

(* ------------------------------------------------------------------ *)
(* Pure parts of the program                                           *)
(* ------------------------------------------------------------------ *)
\* String.prototype.split('-') on a name given as its pieces.
RECURSIVE SplitFrom(_, _, _)
SplitFrom(name, i, cur) ==
    IF i > Len(name) THEN <<cur>>
    ELSE IF name[i] = "-" THEN <<cur>> \o SplitFrom(name, i + 1, "")
    ELSE SplitFrom(name, i + 1, name[i])
Split(name) == SplitFrom(name, 1, "")

\* getPoolDetails on a fetched answer: the first two pieces of the name are
\* the symbols; a missing or empty one is an error, reported as undefined.
GetPoolDetails(data) ==
    LET parts == Split(data.name)
        assetASymbol == IF Len(parts) >= 1 THEN parts[1] ELSE ""
        assetBSymbol == IF Len(parts) >= 2 THEN parts[2] ELSE ""
    IN  IF assetASymbol = "" \/ assetBSymbol = ""
        THEN NoDetails
        ELSE [resolved |-> TRUE, binStep |-> data.bin_step,
              assetAMintAddress |-> data.mint_x, assetBMintAddress |-> data.mint_y,
              assetASymbol |-> assetASymbol, assetBSymbol |-> assetBSymbol]

\* The constructor accepts the range fraction when it is set and a number.
RangeAccepted(range) == range.kind = "num"

\* Math.ceil(range * 10000 / binStep)
RangeInterval(range, binStep) == CeilDiv(range.n * BasisPoints, range.d * binStep)
\* Math.min(rangeInterval, METERORA_MAX_BINS_PER_SIDE)
ClipRangeInterval(rangeInterval) == Min(rangeInterval, METERORA_MAX_BINS_PER_SIDE)

\* A variant of GetUsableBalances that keeps no buffer back.
GetUsableBalancesRaw(details, w) ==
    [A |-> w[details.assetAMintAddress], B |-> w[details.assetBMintAddress]]

\* getUsableBalances: the buffer is kept back from whichever asset is SOL.
GetUsableBalances(details, w) ==
    LET assetABalance == w[details.assetAMintAddress]
        assetBBalance == w[details.assetBMintAddress]
        isAssetANative == ToLowerCase(details.assetASymbol) = "sol"
        isAssetBNative == ToLowerCase(details.assetBSymbol) = "sol"
    IN  [A |-> IF isAssetANative THEN Max(0, assetABalance - NATIVE_TOKEN_FEE_BUFFER)
               ELSE assetABalance,
         B |-> IF isAssetBNative THEN Max(0, assetBBalance - NATIVE_TOKEN_FEE_BUFFER)
               ELSE assetBBalance]

\* A variant of SwapPlan whose target for asset A is not divided by the price.
SwapPlanNoPrice(assetAAmount, assetBAmount, currentPrice) ==
    LET totalValueInAssetB == assetAAmount * currentPrice + assetBAmount
        targetValueInAssetB == Rat(totalValueInAssetB, 2)
    IN  IF RatGT(RatOfInt(assetAAmount), targetValueInAssetB)
        THEN [dir |-> "AtoB", amount |-> RatSub(RatOfInt(assetAAmount), targetValueInAssetB)]
        ELSE IF RatGT(RatOfInt(assetBAmount), targetValueInAssetB)
        THEN [dir |-> "BtoA", amount |-> RatSub(RatOfInt(assetBAmount), targetValueInAssetB)]
        ELSE NoPlan

\* The swap rebalancePosition decides on from the usable balances and the
\* price: the direction and the amount of the asset sold.
SwapPlan(assetAAmount, assetBAmount, currentPrice) ==
    LET totalValueInAssetB == assetAAmount * currentPrice + assetBAmount
        targetValueInAssetB == Rat(totalValueInAssetB, 2)
        targetAssetABalance == RatDivInt(targetValueInAssetB, currentPrice)
        targetAssetBBalance == targetValueInAssetB
    IN  IF RatGT(RatOfInt(assetAAmount), targetAssetABalance)
        THEN [dir |-> "AtoB", amount |-> RatSub(RatOfInt(assetAAmount), targetAssetABalance)]
        ELSE IF RatGT(RatOfInt(assetBAmount), targetAssetBBalance)
        THEN [dir |-> "BtoA", amount |-> RatSub(RatOfInt(assetBAmount), targetAssetBBalance)]
        ELSE NoPlan

\* A variant of FeeBufferCovered that passes on any native balance.
FeeBufferCoveredAlways(nativeBalance) == TRUE

\* verifyNativeTokenBufferForPositions passes on this native balance.
FeeBufferCovered(nativeBalance) == ~(nativeBalance < NATIVE_TOKEN_FEE_BUFFER)

\* A variant of OutOfRange that counts the bounds themselves as outside.
OutOfRangeExclusive(binId, lower, upper) == binId <= lower \/ binId >= upper

\* The decision of rebalance(): the active bin is out of the cached range.
OutOfRange(binId, lower, upper) == binId < lower \/ binId > upper

(* ------------------------------------------------------------------ *)
(* Effects of the collaborators on the ledger                          *)
(* ------------------------------------------------------------------ *)
\* A swap sells the whole units of the amount at the active bin's price.
SwapEffect(w, plan, price) ==
    LET f == RatFloor(plan.amount)
    IN  IF plan.dir = "AtoB"
        THEN [w EXCEPT ![pool.mint_x] = @ - f, ![pool.mint_y] = @ + f * price]
        ELSE [w EXCEPT ![pool.mint_y] = @ - f, ![pool.mint_x] = @ + (f \div price)]

\* The pool opens the position around its active bin, rangeInterval bins a side.
NewPosition(amountA, amountB, rangeInterval) ==
    Position(activeBinId - rangeInterval, activeBinId + rangeInterval, amountA, amountB)

(* ------------------------------------------------------------------ *)
(* Initial states                                                      *)
(* ------------------------------------------------------------------ *)
\* The fields of a fresh MeteoraRebalancer, and nothing running yet.
InitFields ==
    /\ stack = <<>>
    /\ error = NoError
    /\ exitCode = -1
    /\ ret = NoRet
    /\ poolDetails = NoDetails
    /\ currLowerBinId = 0
    /\ currUpperBinId = 0
    /\ meteoraRangeInterval = None
    /\ attempt = 0
    /\ lastResult = <<>>
    /\ balances = NoBalances
    /\ activeBin = None
    /\ swapPlan = NoPlan
    /\ ops = <<>>
    /\ anyFail = FALSE
    /\ alerts = {}
    /\ obs = NoObs

InitProgram == pc = "main_validate" /\ InitFields

InitRetryIdle ==
    /\ retries = 0
    /\ invocations = 0
    /\ delays = 0
    /\ outcomes = <<>>

Init ==
    /\ InitProgram
    /\ InitRetryIdle
    /\ visible = TRUE
    /\ \/ /\ config = GoodConfig
          /\ \E l \in InitLedgers :
                pool = l.pool /\ wallet = l.wallet /\ positions = l.positions
          /\ activeBinId \in ActiveBins
       \/ /\ config \in BadConfigs
          /\ pool = PoolSolUsdc
          /\ wallet = Wallet(12, 0, 0)
          /\ positions = <<>>
          /\ activeBinId = 100

(* ------------------------------------------------------------------ *)
(* Start-up script: main                                               *)
(* ------------------------------------------------------------------ *)
ResetHist ==
    /\ ops' = <<>>
    /\ anyFail' = FALSE
    /\ alerts' = {}
    /\ obs' = NoObs

\* The required environment variables and the known-bad RPC endpoint.
MainValidate ==
    /\ pc = "main_validate"
    /\ IF ~config.key \/ ~config.poolAddress \/ config.rpc = "unset"
       THEN Throw(MsgConfig) /\ UNCHANGED alerts
       ELSE IF config.rpc = "default"
       THEN Throw(MsgDefaultRpc) /\ UNCHANGED alerts
       ELSE Goto("main_construct") /\ Alert("INFO", "Initializing")
    /\ UNCHANGED <<objVars, localVars, envVars, retryVars, ops, anyFail, obs>>

\* new MeteoraRebalancer(...), then loadInitialState().
MainConstruct ==
    /\ pc = "main_construct"
    /\ IF ~RangeAccepted(config.range)
       THEN Throw(MsgRangeEnv)
       ELSE Call("li_getPoolDetails", "main_after_load")
    /\ UNCHANGED <<objVars, localVars, envVars, retryVars, histVars>>

\* setTimeout(runRebalanceLoop, 10 s); main returns.
MainAfterLoad ==
    /\ pc = "main_after_load"
    /\ pc' = "loop_timer"
    /\ ret' = NoRet
    /\ ResetHist
    /\ UNCHANGED <<stack, error, exitCode, objVars, localVars, envVars, retryVars>>

\* A variant of MainCatch that exits with status 0.
MainCatchZero ==
    /\ pc = "main_catch"
    /\ pc' = "exited"
    /\ exitCode' = 0
    /\ UNCHANGED <<stack, error, ret, objVars, localVars, envVars, retryVars, histVars>>

\* catch of main: cleanupAndExit(1).
MainCatch ==
    /\ pc = "main_catch"
    /\ pc' = "exited"
    /\ exitCode' = 1
    /\ UNCHANGED <<stack, error, ret, objVars, localVars, envVars, retryVars, histVars>>

(* ------------------------------------------------------------------ *)
(* runRebalanceLoop                                                    *)
(* ------------------------------------------------------------------ *)
\* A variant of LoopStart whose timer also fires while a cycle is waiting
\* after its removal.
LoopStartEarly ==
    /\ pc \in {"loop_timer", "rl_delay"}
    /\ Call("rb_getActiveBin", "loop_ret")
    /\ UNCHANGED <<objVars, localVars, envVars, retryVars, histVars>>

\* The 10 s timer fires: one decision cycle starts.
LoopStart ==
    /\ pc = "loop_timer"
    /\ Call("rb_getActiveBin", "loop_ret")
    /\ UNCHANGED <<objVars, localVars, envVars, retryVars, histVars>>

\* rebalance() returned: delay(10 s), then the next cycle.
LoopRet ==
    /\ pc = "loop_ret"
    /\ pc' = "loop_timer"
    /\ error' = NoError
    /\ ret' = NoRet
    /\ ResetHist
    /\ UNCHANGED <<stack, exitCode, objVars, localVars, envVars, retryVars>>

\* catch of runRebalanceLoop: a 'Bad request' is alerted and the loop goes
\* on; anything else is thrown again, out of the timer callback.
LoopCatch ==
    /\ pc = "loop_catch"
    /\ IF Includes(error, "Bad request")
       THEN Goto("loop_ret") /\ Alert("ERROR", "Expected error running rebalance")
       ELSE pc' = "crashed" /\ exitCode' = 1 /\ UNCHANGED <<stack, error, ret, alerts>>
    /\ UNCHANGED <<objVars, localVars, envVars, retryVars, ops, anyFail, obs>>

\* The process is gone: what it observed goes with it.
Crashed ==
    /\ pc = "crashed"
    /\ pc' = "dead"
    /\ error' = NoError
    /\ ret' = NoRet
    /\ ResetHist
    /\ UNCHANGED <<stack, exitCode, objVars, localVars, envVars, retryVars>>

(* ------------------------------------------------------------------ *)
(* loadInitialState                                                    *)
(* ------------------------------------------------------------------ *)
\* getPoolDetails (the fetch may fail), the undefined check, the range width.
LiGetPoolDetails ==
    /\ pc = "li_getPoolDetails"
    /\ \E fetched \in BOOLEAN :
         LET details == IF fetched THEN GetPoolDetails(pool) ELSE NoDetails
             rangeInterval == RangeInterval(config.range, details.binStep)
         IN  /\ poolDetails' = details
             /\ anyFail' = (anyFail \/ ~fetched)
             /\ IF ~details.resolved
                THEN /\ Throw(MsgPoolDetails)
                     /\ Alert("ERROR", "In getPoolDetails")
                     /\ UNCHANGED meteoraRangeInterval
                ELSE /\ Goto("li_getUsableBalances")
                     /\ meteoraRangeInterval' = Some(ClipRangeInterval(rangeInterval))
                     /\ IF rangeInterval > METERORA_MAX_BINS_PER_SIDE
                        THEN Alert("WARNING", "Range interval clipped")
                        ELSE UNCHANGED alerts
    /\ UNCHANGED <<rangeVars, localVars, envVars, retryVars, ops, obs>>

\* getUsableBalances, logged only.
LiGetUsableBalances ==
    /\ pc = "li_getUsableBalances"
    /\ \E out \in WalletOutcomes :
         IF out.ok
         THEN /\ Goto("li_getPositions")
              /\ attempt' = 0
              /\ lastResult' = <<>>
              /\ obs' = [obs EXCEPT !.polled = "none", !.lastPoll = "none", !.found = "none"]
              /\ UNCHANGED <<balances, activeBin, swapPlan, anyFail>>
         ELSE Throw(out.msg) /\ Fail /\ ClearLocals /\ UNCHANGED obs
    /\ UNCHANGED <<objVars, envVars, retryVars, ops, alerts>>

\* retryGetPositions(3), then the branch on its result: adopt the first
\* position and return false, or go on to create one.
LiGetPositions ==
    /\ pc = "li_getPositions"
    /\ \E out \in PositionsOutcomes, list \in Views :
         LET r == PollStep(attempt, LoadPositionsRetries, out, list, lastResult)
             o == [obs EXCEPT !.lastPoll = PollKind(out, list)]
         IN  /\ anyFail' = (anyFail \/ ~out.ok)
             /\ visible' = (visible \/ (out.ok /\ list = positions))
             /\ CASE r.kind = "again" ->
                       /\ Goto(pc)
                       /\ attempt' = r.attempt
                       /\ lastResult' = r.lastResult
                       /\ obs' = o
                       /\ UNCHANGED <<rangeVars, balances, activeBin, swapPlan>>
                  [] r.kind = "throw" ->
                       /\ Throw(r.err)
                       /\ ClearLocals
                       /\ obs' = o
                       /\ UNCHANGED rangeVars
                  [] r.kind = "return" /\ Len(r.value) = 0 ->
                       /\ Goto("li_verifyMin")
                       /\ ClearLocals
                       /\ obs' = [o EXCEPT !.polled = "empty", !.found = "empty"]
                       /\ UNCHANGED rangeVars
                  [] r.kind = "return" /\ Len(r.value) > 0 ->
                       /\ Return("loadInitialState", "false")
                       /\ currLowerBinId' = AdoptRange(r.value).lower
                       /\ currUpperBinId' = AdoptRange(r.value).upper
                       /\ ClearLocals
                       /\ obs' = [o EXCEPT !.polled = "seen", !.found = "some"]
    /\ UNCHANGED <<poolDetails, meteoraRangeInterval, config, pool, positions,
                   activeBinId, wallet, retryVars, ops, alerts>>

\* verifyNativeTokenBalanceForFees (a warning only), then rebalancePosition().
LiVerifyMin ==
    /\ pc = "li_verifyMin"
    /\ \E out \in WalletOutcomes :
         IF out.ok
         THEN /\ Call("rp_getUsableBalances", "li_call_add")
              /\ IF wallet[NativeMint] < NATIVE_TOKEN_MIN_BALANCE
                 THEN Alert("WARNING", "Low native token balance")
                 ELSE UNCHANGED alerts
              /\ UNCHANGED anyFail
         ELSE Throw(out.msg) /\ Fail /\ UNCHANGED alerts
    /\ UNCHANGED <<objVars, localVars, envVars, retryVars, ops, obs>>

\* A variant of LiCallAdd that returns without creating the position.
LiCallAddSkipped ==
    /\ pc = "li_call_add"
    /\ Goto("li_return_true")
    /\ UNCHANGED <<objVars, localVars, envVars, retryVars, histVars>>

\* addLiquidity()
LiCallAdd ==
    /\ pc = "li_call_add"
    /\ Call("al_verify", "li_return_true")
    /\ UNCHANGED <<objVars, localVars, envVars, retryVars, histVars>>

LiReturnTrue ==
    /\ pc = "li_return_true"
    /\ Return("loadInitialState", "true")
    /\ UNCHANGED <<objVars, localVars, envVars, retryVars, histVars>>

(* ------------------------------------------------------------------ *)
(* rebalancePosition: the asset balancer                               *)
(* ------------------------------------------------------------------ *)
\* The balances the swap decision is taken on; getUsableBalances reads the
\* pool details through their getter, which raises while they are undefined.
RpGetUsableBalances ==
    /\ pc = "rp_getUsableBalances"
    /\ \E out \in WalletOutcomes :
         IF ~poolDetails.resolved
         THEN Throw(MsgNotInitialized) /\ ClearLocals /\ UNCHANGED <<ops, anyFail>>
         ELSE IF out.ok
         THEN /\ Goto("rp_getActiveBin")
              /\ balances' = GetUsableBalances(poolDetails, wallet)
              /\ attempt' = 0
              /\ ops' = Append(ops, "balanceRead")
              /\ UNCHANGED <<lastResult, activeBin, swapPlan, anyFail>>
         ELSE Throw(out.msg) /\ Fail /\ ClearLocals /\ UNCHANGED ops
    /\ UNCHANGED <<objVars, envVars, retryVars, alerts, obs>>

\* retry(getActiveBin), then the targets and the swap decision.
RpGetActiveBin ==
    /\ pc = "rp_getActiveBin"
    /\ \E out \in ActiveBinOutcomes :
         LET r == RetryStep(attempt, DefaultRetries, out)
             price == PriceOf(activeBinId)
             plan == SwapPlan(balances.A, balances.B, price)
         IN  /\ anyFail' = (anyFail \/ ~out.ok)
             /\ CASE r.kind = "again" ->
                       /\ Goto(pc)
                       /\ attempt' = r.attempt
                       /\ UNCHANGED <<lastResult, balances, activeBin, swapPlan>>
                  [] r.kind = "throw" ->
                       Throw(r.err) /\ ClearLocals
                  [] r.kind = "return" ->
                       /\ Goto(IF plan.dir = "none" THEN "rp_newBalances" ELSE "rp_swap")
                       /\ activeBin' = Some([binId |-> activeBinId, pricePerToken |-> price])
                       /\ swapPlan' = plan
                       /\ attempt' = 0
                       /\ UNCHANGED <<lastResult, balances>>
    /\ UNCHANGED <<objVars, envVars, retryVars, ops, alerts, obs>>

\* retry(jupiter.swap) of the decided amount.
RpSwap ==
    /\ pc = "rp_swap"
    /\ \E out \in SwapOutcomes :
         LET r == RetryStep(attempt, DefaultRetries, out)
         IN  /\ anyFail' = (anyFail \/ ~out.ok)
             /\ CASE r.kind = "again" ->
                       /\ Goto(pc)
                       /\ attempt' = r.attempt
                       /\ UNCHANGED <<lastResult, balances, activeBin, swapPlan, ops, wallet>>
                  [] r.kind = "throw" ->
                       Throw(r.err) /\ ClearLocals /\ UNCHANGED <<ops, wallet>>
                  [] r.kind = "return" ->
                       /\ Goto("rp_newBalances")
                       /\ wallet' = SwapEffect(wallet, swapPlan, PriceOf(activeBinId))
                       /\ attempt' = 0
                       /\ ops' = Append(ops, "swap")
                       /\ UNCHANGED <<lastResult, balances, activeBin, swapPlan>>
    /\ UNCHANGED <<objVars, config, pool, positions, visible, activeBinId, retryVars, alerts,
                   obs>>

\* The balances after the swap, logged.
RpNewBalances ==
    /\ pc = "rp_newBalances"
    /\ \E out \in WalletOutcomes :
         IF out.ok
         THEN Goto("rp_delay") /\ UNCHANGED <<localVars, anyFail>>
         ELSE Throw(out.msg) /\ Fail /\ ClearLocals
    /\ UNCHANGED <<objVars, envVars, retryVars, ops, alerts, obs>>

\* The 5 s delay, then the return.
RpDelay ==
    /\ pc = "rp_delay"
    /\ Return("rebalancePosition", "void")
    /\ ClearLocals
    /\ UNCHANGED <<objVars, envVars, retryVars, histVars>>

(* ------------------------------------------------------------------ *)
(* addLiquidity                                                        *)
(* ------------------------------------------------------------------ *)
\* verifyNativeTokenBufferForPositions at label `here`: the native balance
\* is read; below the buffer it is alerted and raised.
VerifyBuffer(here, next) ==
    /\ pc = here
    /\ \E out \in WalletOutcomes :
         IF ~out.ok
         THEN Throw(out.msg) /\ Fail /\ UNCHANGED <<ops, alerts>>
         ELSE /\ UNCHANGED anyFail
              /\ IF FeeBufferCovered(wallet[NativeMint])
                 THEN /\ next
                      /\ ops' = Append(ops, "feeCheck")
                      /\ UNCHANGED alerts
                 ELSE /\ Throw(MsgFeeBuffer)
                      /\ Alert("ERROR", "Insufficient native token balance")
                      /\ UNCHANGED ops
    /\ UNCHANGED <<objVars, localVars, envVars, retryVars, obs>>

AlVerify == VerifyBuffer("al_verify", Goto("al_getUsableBalances"))

\* The amounts the position is created with.
AlGetUsableBalances ==
    /\ pc = "al_getUsableBalances"
    /\ \E out \in WalletOutcomes :
         IF ~poolDetails.resolved
         THEN Throw(MsgNotInitialized) /\ ClearLocals /\ UNCHANGED anyFail
         ELSE IF out.ok
         THEN /\ Goto("al_add")
              /\ balances' = GetUsableBalances(poolDetails, wallet)
              /\ attempt' = 0
              /\ UNCHANGED <<lastResult, activeBin, swapPlan, anyFail>>
         ELSE Throw(out.msg) /\ Fail /\ ClearLocals
    /\ UNCHANGED <<objVars, envVars, retryVars, ops, alerts, obs>>

\* retry(meteora.addLiquidity): the pool takes the amounts and opens a
\* position, unless it already holds MaxPositions.
AlAdd ==
    /\ pc = "al_add"
    /\ \E out \in AddOutcomes :
         LET r == RetryStep(attempt, DefaultRetries, out)
             w == meteoraRangeInterval[1]
         IN  /\ out.ok => (Len(positions) < MaxPositions /\ balances.A + balances.B > 0)
             /\ anyFail' = (anyFail \/ ~out.ok)
             /\ CASE r.kind = "again" ->
                       /\ Goto(pc)
                       /\ attempt' = r.attempt
                       /\ UNCHANGED <<lastResult, balances, activeBin, swapPlan, ops, obs,
                                      ledgerVars>>
                  [] r.kind = "throw" ->
                       Throw(r.err) /\ ClearLocals /\ UNCHANGED <<ops, obs, ledgerVars>>
                  [] r.kind = "return" ->
                       /\ Goto("al_getPositions")
                       /\ positions' = Append(positions, NewPosition(balances.A, balances.B, w))
                       /\ visible' = FALSE
                       /\ wallet' = [wallet EXCEPT ![pool.mint_x] = @ - balances.A,
                                                   ![pool.mint_y] = @ - balances.B]
                       /\ attempt' = 0
                       /\ lastResult' = <<>>
                       /\ ops' = Append(ops, "add")
                       /\ obs' = [obs EXCEPT !.polled = "none", !.lastPoll = "none",
                                             !.cacheLower = currLowerBinId,
                                             !.cacheUpper = currUpperBinId]
                       /\ UNCHANGED <<balances, activeBin, swapPlan>>
    /\ UNCHANGED <<objVars, config, pool, activeBinId, retryVars, alerts>>

\* retryGetPositions(10, 10 s), then the cache is set from the first
\* position, or left alone when none was seen.
AlGetPositions ==
    /\ pc = "al_getPositions"
    /\ \E out \in PositionsOutcomes, list \in Views :
         LET r == PollStep(attempt, AddPositionsRetries, out, list, lastResult)
             o == [obs EXCEPT !.lastPoll = PollKind(out, list)]
         IN  /\ anyFail' = (anyFail \/ ~out.ok)
             /\ visible' = (visible \/ (out.ok /\ list = positions))
             /\ CASE r.kind = "again" ->
                       /\ Goto(pc)
                       /\ attempt' = r.attempt
                       /\ lastResult' = r.lastResult
                       /\ obs' = o
                       /\ UNCHANGED <<rangeVars, balances, activeBin, swapPlan>>
                  [] r.kind = "throw" ->
                       /\ Throw(r.err)
                       /\ ClearLocals
                       /\ obs' = o
                       /\ UNCHANGED rangeVars
                  [] r.kind = "return" /\ Len(r.value) = 0 ->
                       /\ Return("addLiquidity", "void")
                       /\ ClearLocals
                       /\ obs' = [o EXCEPT !.polled = "empty"]
                       /\ UNCHANGED rangeVars
                  [] r.kind = "return" /\ Len(r.value) > 0 ->
                       /\ Return("addLiquidity", "void")
                       /\ currLowerBinId' = AdoptRange(r.value).lower
                       /\ currUpperBinId' = AdoptRange(r.value).upper
                       /\ ClearLocals
                       /\ obs' = [o EXCEPT !.polled = "seen"]
    /\ UNCHANGED <<poolDetails, meteoraRangeInterval, config, pool, positions,
                   activeBinId, wallet, retryVars, ops, alerts>>

(* ------------------------------------------------------------------ *)
(* removeLiquidity                                                     *)
(* ------------------------------------------------------------------ *)
\* retry(meteora.removeLiquidity, closing): the pool closes its oldest
\* position and pays it out; with no position it raises MsgNoPositions.
\* The amounts removed are then logged under the symbols of the pool
\* details, whose getter raises while they are undefined.
RlRemove ==
    /\ pc = "rl_remove"
    /\ \E out \in RemoveOutcomes :
         LET r == RetryStep(attempt, DefaultRetries, out)
         IN  /\ out.ok => Len(positions) > 0
             /\ (Len(positions) = 0 /\ ~out.ok) => out.msg \in {MsgNoPositions, MsgTransient}
             /\ (Len(positions) > 0 /\ ~out.ok) => out.msg # MsgNoPositions
             /\ anyFail' = (anyFail \/ ~out.ok)
             /\ CASE r.kind = "again" ->
                       /\ Goto(pc)
                       /\ attempt' = r.attempt
                       /\ UNCHANGED <<lastResult, balances, activeBin, swapPlan, ops, ledgerVars>>
                  [] r.kind = "throw" ->
                       Throw(r.err) /\ ClearLocals /\ UNCHANGED <<ops, ledgerVars>>
                  [] r.kind = "return" ->
                       /\ IF poolDetails.resolved
                          THEN Goto("rl_delay")
                          ELSE Throw(MsgNotInitialized)
                       /\ positions' = Tail(positions)
                       /\ visible' = (visible \/ Len(positions) = 1)
                       /\ wallet' = [wallet EXCEPT ![pool.mint_x] = @ + Head(positions).a,
                                                   ![pool.mint_y] = @ + Head(positions).b]
                       /\ attempt' = 0
                       /\ ops' = Append(ops, "remove")
                       /\ UNCHANGED <<lastResult, balances, activeBin, swapPlan>>
    /\ UNCHANGED <<objVars, config, pool, activeBinId, retryVars, alerts, obs>>

\* The 5 s delay for the wallet to catch up.
RlDelay ==
    /\ pc = "rl_delay"
    /\ Goto("rl_getUsableBalances")
    /\ UNCHANGED <<objVars, localVars, envVars, retryVars, histVars>>

\* The balances after the withdrawal, logged.
RlGetUsableBalances ==
    /\ pc = "rl_getUsableBalances"
    /\ \E out \in WalletOutcomes :
         IF ~poolDetails.resolved
         THEN Throw(MsgNotInitialized) /\ ClearLocals /\ UNCHANGED anyFail
         ELSE IF out.ok
         THEN Return("removeLiquidity", "void") /\ UNCHANGED <<localVars, anyFail>>
         ELSE Throw(out.msg) /\ Fail /\ ClearLocals
    /\ UNCHANGED <<objVars, envVars, retryVars, ops, alerts, obs>>

(* ------------------------------------------------------------------ *)
(* rebalance: one decision cycle                                       *)
(* ------------------------------------------------------------------ *)
\* retry(getActiveBin), then the range test: in range returns false, out of
\* range starts the relocation with removeLiquidity().
RbGetActiveBin ==
    /\ pc = "rb_getActiveBin"
    /\ \E out \in ActiveBinOutcomes :
         LET r == RetryStep(attempt, DefaultRetries, out)
             o == [obs EXCEPT !.decision =
                     IF OutOfRange(activeBinId, currLowerBinId, currUpperBinId)
                     THEN "out" ELSE "in"]
         IN  /\ anyFail' = (anyFail \/ ~out.ok)
             /\ CASE r.kind = "again" ->
                       /\ Goto(pc)
                       /\ attempt' = r.attempt
                       /\ UNCHANGED <<lastResult, balances, activeBin, swapPlan, obs>>
                  [] r.kind = "throw" ->
                       Throw(r.err) /\ ClearLocals /\ UNCHANGED obs
                  [] r.kind = "return" ->
                       /\ IF OutOfRange(activeBinId, currLowerBinId, currUpperBinId)
                          THEN Call("rl_remove", "rb_call_rp")
                          ELSE Return("rebalance", "false")
                       /\ ClearLocals
                       /\ obs' = o
    /\ UNCHANGED <<objVars, envVars, retryVars, ops, alerts>>

\* A variant of RbCallRp that goes on without balancing the assets.
RbCallRpSkipped ==
    /\ pc = "rb_call_rp"
    /\ Goto("rb_verify")
    /\ UNCHANGED <<objVars, localVars, envVars, retryVars, histVars>>

\* rebalancePosition()
RbCallRp ==
    /\ pc = "rb_call_rp"
    /\ Call("rp_getUsableBalances", "rb_verify")
    /\ UNCHANGED <<objVars, localVars, envVars, retryVars, histVars>>

\* verifyNativeTokenBufferForPositions(), then addLiquidity()
RbVerify == VerifyBuffer("rb_verify", Call("al_verify", "rb_return_true"))

RbReturnTrue ==
    /\ pc = "rb_return_true"
    /\ Return("rebalance", "true")
    /\ UNCHANGED <<objVars, localVars, envVars, retryVars, histVars>>

\* A variant of RbCatch that never re-runs loadInitialState().
RbCatchNoReload ==
    /\ pc = "rb_catch"
    /\ Goto("rb_catch_alert")
    /\ obs' = [obs EXCEPT !.caught = error]
    /\ UNCHANGED <<objVars, localVars, envVars, retryVars, ops, anyFail, alerts>>

\* catch of rebalance(): 'No positions found in this pool' re-runs
\* loadInitialState() first.
RbCatch ==
    /\ pc = "rb_catch"
    /\ IF Includes(error, "No positions found in this pool")
       THEN /\ Call("li_getPoolDetails", "rb_catch_alert")
            /\ obs' = [obs EXCEPT !.caught = error, !.loads = @ + 1]
       ELSE /\ Goto("rb_catch_alert")
            /\ obs' = [obs EXCEPT !.caught = error]
    /\ UNCHANGED <<objVars, localVars, envVars, retryVars, ops, anyFail, alerts>>

\* A variant of RbCatchAlert that raises the caught error again.
RbCatchAlertRethrow ==
    /\ pc = "rb_catch_alert"
    /\ Throw(error)
    /\ Alert("ERROR", "In rebalanceMeteora")
    /\ UNCHANGED <<objVars, localVars, envVars, retryVars, ops, anyFail, obs>>

\* The alert of the catch, and the result false.
RbCatchAlert ==
    /\ pc = "rb_catch_alert"
    /\ Return("rebalance", "false")
    /\ Alert("ERROR", "In rebalanceMeteora")
    /\ UNCHANGED <<objVars, localVars, envVars, retryVars, ops, anyFail, obs>>

(* ------------------------------------------------------------------ *)
(* Environment                                                         *)
(* ------------------------------------------------------------------ *)
\* The market moves the pool's active bin while the agent runs.
EnvMoveBin ==
    /\ pc \notin {"exited", "crashed", "dead", "main_validate", "main_construct", "main_catch"}
    /\ activeBinId' \in ActiveBins \ {activeBinId}
    /\ UNCHANGED <<ctlVars, objVars, localVars, config, pool, positions, visible, wallet,
                   retryVars, histVars>>

Next ==
    \/ MainValidate \/ MainConstruct \/ MainAfterLoad \/ MainCatch
    \/ LoopStart \/ LoopRet \/ LoopCatch \/ Crashed
    \/ LiGetPoolDetails \/ LiGetUsableBalances \/ LiGetPositions \/ LiVerifyMin
    \/ LiCallAdd \/ LiReturnTrue
    \/ RpGetUsableBalances \/ RpGetActiveBin \/ RpSwap \/ RpNewBalances \/ RpDelay
    \/ AlVerify \/ AlGetUsableBalances \/ AlAdd \/ AlGetPositions
    \/ RlRemove \/ RlDelay \/ RlGetUsableBalances
    \/ RbGetActiveBin \/ RbCallRp \/ RbVerify \/ RbReturnTrue \/ RbCatch \/ RbCatchAlert
    \/ EnvMoveBin

Spec == Init /\ [][Next]_vars

(* ------------------------------------------------------------------ *)
(* The public methods called in any order                              *)
(* ------------------------------------------------------------------ *)
\* A constructed MeteoraRebalancer whose caller calls loadInitialState()
\* and rebalance() one after the other, in any order.
ApiLedgers ==
    { Ledger(PoolSolUsdc, Wallet(10, 0, 0), <<Position(100, 120, 3, 1)>>),
      Ledger(PoolBonkUsdc, Wallet(12, 0, 2), <<>>) }

InitApi ==
    /\ pc = "api_idle"
    /\ InitFields
    /\ InitRetryIdle
    /\ visible = TRUE
    /\ config = GoodConfig
    /\ \E l \in ApiLedgers :
          pool = l.pool /\ wallet = l.wallet /\ positions = l.positions
    /\ activeBinId \in ActiveBins

ApiLoadInitialState ==
    /\ pc = "api_idle"
    /\ Call("li_getPoolDetails", "api_ret")
    /\ UNCHANGED <<objVars, localVars, envVars, retryVars, histVars>>

ApiRebalance ==
    /\ pc = "api_idle"
    /\ Call("rb_getActiveBin", "api_ret")
    /\ UNCHANGED <<objVars, localVars, envVars, retryVars, histVars>>

\* The call returned, or raised: the caller goes on to its next call.
ApiRet ==
    /\ pc \in {"api_ret", "api_catch"}
    /\ pc' = "api_idle"
    /\ error' = NoError
    /\ ret' = NoRet
    /\ ResetHist
    /\ UNCHANGED <<stack, exitCode, objVars, localVars, envVars, retryVars>>

NextApi ==
    \/ ApiLoadInitialState \/ ApiRebalance \/ ApiRet
    \/ LiGetPoolDetails \/ LiGetUsableBalances \/ LiGetPositions \/ LiVerifyMin
    \/ LiCallAdd \/ LiReturnTrue
    \/ RpGetUsableBalances \/ RpGetActiveBin \/ RpSwap \/ RpNewBalances \/ RpDelay
    \/ AlVerify \/ AlGetUsableBalances \/ AlAdd \/ AlGetPositions
    \/ RlRemove \/ RlDelay \/ RlGetUsableBalances
    \/ RbGetActiveBin \/ RbCallRp \/ RbVerify \/ RbReturnTrue \/ RbCatch \/ RbCatchAlert

SpecApi == InitApi /\ [][NextApi]_vars

(* ------------------------------------------------------------------ *)
(* The retry executor on its own                                       *)
(* ------------------------------------------------------------------ *)
\* retry(operation, retries) on an operation that may end any way at each
\* invocation.
InitRetry ==
    /\ pc = "retry"
    /\ InitFields
    /\ retries \in 1..MaxRetries
    /\ invocations = 0
    /\ delays = 0
    /\ outcomes = <<>>
    /\ config = GoodConfig
    /\ pool = PoolSolUsdc
    /\ wallet = Wallet(12, 0, 0)
    /\ positions = <<>>
    /\ visible = TRUE
    /\ activeBinId = 100

\* One pass of the loop: the operation is invoked and ends with `out`.
RetryRun ==
    /\ pc = "retry"
    /\ \E out \in Outcomes(ExternalErrors) :
         LET r == RetryStep(attempt, retries, out)
         IN  /\ invocations' = invocations + 1
             /\ outcomes' = Append(outcomes, out)
             /\ delays' = IF r.delayed THEN delays + 1 ELSE delays
             /\ attempt' = r.attempt
             /\ pc' = CASE r.kind = "again" -> "retry"
                        [] r.kind = "return" -> "retry_returned"
                        [] r.kind = "throw" -> "retry_threw"
             /\ error' = IF r.kind = "throw" THEN r.err ELSE error
    /\ UNCHANGED <<stack, exitCode, ret, objVars, lastResult, balances, activeBin, swapPlan,
                   envVars, retries, histVars>>

SpecRetry == InitRetry /\ [][RetryRun]_vars

(* ------------------------------------------------------------------ *)
(* Range sizing over the configurations and pools                      *)
(* ------------------------------------------------------------------ *)
\* The range fractions the environment may hold and the bin steps of pools:
\* fractions on which the double arithmetic of the code is exact.
RangeFractions ==
    { RangeNum(5, 100), RangeNum(2, 100), RangeNum(1, 2), RangeNum(1, 10000),
      RangeNum(1, 1000), RangeNum(0, 1), RangeNum(-5, 100), RangeNum(2, 1),
      RangeNum(1, 10), RangeNum(1, 4), RangeUnset, RangeNaN }
BinSteps == {1, 5, 25, 100}

InitWidth ==
    /\ InitProgram
    /\ InitRetryIdle
    /\ \E r \in RangeFractions : config = Config(TRUE, TRUE, "custom", r)
    /\ \E g \in BinSteps : pool = [PoolSolUsdc EXCEPT !.bin_step = g]
    /\ wallet = Wallet(12, 0, 0)
    /\ positions = <<>>
    /\ visible = TRUE
    /\ activeBinId = 100

NextWidth == MainValidate \/ MainConstruct \/ LiGetPoolDetails \/ MainCatch

SpecWidth == InitWidth /\ [][NextWidth]_vars

(* ------------------------------------------------------------------ *)
(* The asset balancer on its own                                       *)
(* ------------------------------------------------------------------ *)
\* rebalancePosition() called on a resolved pool, over the holdings and
\* the prices.
Holdings == {0, 1, 5, 10, 20}
BalancerBins == {40, 100, 160}

InitBalancer ==
    /\ InitProgram
    /\ InitRetryIdle
    /\ config = GoodConfig
    /\ pool \in Pools
    /\ \E a \in Holdings, b \in Holdings :
          wallet = [m \in Mints |-> IF m = pool.mint_x THEN a
                                    ELSE IF m = pool.mint_y THEN b ELSE 12]
    /\ positions = <<>>
    /\ visible = TRUE
    /\ activeBinId \in BalancerBins

\* The call of rebalancePosition() by rebalance(), on the pool's details.
BalancerCall ==
    /\ pc = "main_validate"
    /\ pc' = "rp_getUsableBalances"
    /\ stack' = <<"loop_ret", "rb_verify">>
    /\ poolDetails' = GetPoolDetails(pool)
    /\ UNCHANGED <<error, exitCode, ret, rangeVars, meteoraRangeInterval, localVars,
                   envVars, retryVars, histVars>>

NextBalancer ==
    \/ BalancerCall
    \/ RpGetUsableBalances \/ RpGetActiveBin \/ RpSwap \/ RpNewBalances \/ RpDelay

SpecBalancer == InitBalancer /\ [][NextBalancer]_vars

(* ------------------------------------------------------------------ *)
(* The start-up over the names the metadata service may answer         *)
(* ------------------------------------------------------------------ *)
\* The agent is started on a pool that holds no position or one.  Market
\* identifiers as their pieces: well formed, with a piece missing or empty,
\* and with more than two pieces.
PoolNames ==
    { <<"SOL", "-", "USDC">>, <<"SOL">>, <<"SOL", "-">>, <<"-", "USDC">>, <<>>, <<"-">>,
      <<"SOL", "-", "-", "USDC">>, <<"SOL", "-", "USDC", "-", "BONK">>,
      <<"SOL", "-", "USDC", "-">> }

InitNames ==
    /\ InitProgram
    /\ InitRetryIdle
    /\ config = GoodConfig
    /\ \E n \in PoolNames : pool = [PoolSolUsdc EXCEPT !.name = n]
    /\ wallet = Wallet(12, 0, 0)
    /\ positions \in {<<>>, <<Position(100, 120, 3, 1)>>}
    /\ visible = TRUE
    /\ activeBinId = 100

\* main up to the start of the loop.
NextNames ==
    \/ MainValidate \/ MainConstruct \/ MainAfterLoad \/ MainCatch
    \/ LiGetPoolDetails \/ LiGetUsableBalances \/ LiGetPositions \/ LiVerifyMin
    \/ LiCallAdd \/ LiReturnTrue
    \/ RpGetUsableBalances \/ RpGetActiveBin \/ RpSwap \/ RpNewBalances \/ RpDelay
    \/ AlVerify \/ AlGetUsableBalances \/ AlAdd \/ AlGetPositions

SpecNames == InitNames /\ [][NextNames]_vars

(* ------------------------------------------------------------------ *)
(* Properties                                                          *)
(* ------------------------------------------------------------------ *)
FeeAlert == <<"ERROR", "Insufficient native token balance">> \in alerts
RelocationOps ==
    { <<"remove", "balanceRead", "feeCheck", "feeCheck", "add">>,
      <<"remove", "balanceRead", "swap", "feeCheck", "feeCheck", "add">> }
CreationOps ==
    { <<"balanceRead", "feeCheck", "add">>,
      <<"balanceRead", "swap", "feeCheck", "add">> }
CacheIs(position) ==
    currLowerBinId = position.lowerBinId /\ currUpperBinId = position.upperBinId
PollLabels == {"li_getPositions", "al_getPositions"}
CatchLabels == {"rb_catch", "loop_catch", "main_catch"}
PollBudget == IF pc = "li_getPositions" THEN LoadPositionsRetries ELSE AddPositionsRetries
Count(seq, x) == Cardinality({i \in 1..Len(seq) : seq[i] = x})

\* C1: when the step of rebalance() that reads the active bin succeeds and
\* the bin is within the cached bounds (the bounds included), rebalance()
\* returns false to the loop having issued no remove, no swap and no add,
\* and the cached range, the positions and the wallet are as they were.
C1_InRangeFrame ==
    [][(/\ pc = "rb_getActiveBin"
        /\ pc' \notin {"rb_getActiveBin", "rb_catch"}
        /\ currLowerBinId <= activeBinId
        /\ activeBinId <= currUpperBinId)
       => (/\ pc' = "loop_ret"
           /\ ret' = [fn |-> "rebalance", value |-> "false"]
           /\ ops' = <<>>
           /\ UNCHANGED <<currLowerBinId, currUpperBinId, positions, wallet>>)]_vars
C1_Witness ==
    /\ pc = "loop_ret"
    /\ obs.decision = "in"
    /\ ret = [fn |-> "rebalance", value |-> "false"]
    /\ activeBinId = currLowerBinId
    /\ Len(positions) = 1

\* C2 as stated: a cycle that found the bin out of range and saw every
\* external call succeed has returned true after remove, balance read, at
\* most one swap, fee check, add, in this order.
C2_Original ==
    (pc = "loop_ret" /\ obs.decision = "out" /\ ~anyFail)
        => (ret = [fn |-> "rebalance", value |-> "true"] /\ ops \in RelocationOps)
\* C2: a cycle that found the bin out of range, saw every external call
\* succeed and found the native balance at or above the fee buffer at each
\* fee check has returned true after exactly: one remove, the balance read,
\* at most one swap, the fee check (by rebalance and again by addLiquidity),
\* one add.
C2_Relocation ==
    (pc = "loop_ret" /\ obs.decision = "out" /\ ~anyFail /\ ~FeeAlert)
        => (ret = [fn |-> "rebalance", value |-> "true"] /\ ops \in RelocationOps)
C2_Witness ==
    /\ pc = "loop_ret"
    /\ obs.decision = "out"
    /\ ~anyFail
    /\ ret = [fn |-> "rebalance", value |-> "true"]
    /\ ops = <<"remove", "balanceRead", "swap", "feeCheck", "feeCheck", "add">>

\* C3 as stated: after a relocation or an initial creation that returned
\* true the cached range is that of the position just created.
C3_Original ==
    (pc \in {"loop_ret", "main_after_load"} /\ ret.value = "true")
        => (Len(positions) > 0 /\ CacheIs(Last(positions)))
\* C3: after a relocation or an initial creation that returned true the
\* cached range is that of the first position the pool lists, when the query
\* after the creation listed any; when it listed none, the cached range is
\* what it was before the creation.
C3_CacheAfterCreate ==
    (pc \in {"loop_ret", "main_after_load"} /\ ret.value = "true")
        => IF obs.polled = "seen"
           THEN Len(positions) > 0 /\ CacheIs(positions[1])
           ELSE /\ obs.polled = "empty"
                /\ currLowerBinId = obs.cacheLower
                /\ currUpperBinId = obs.cacheUpper
C3_Witness ==
    /\ pc = "loop_ret"
    /\ ret = [fn |-> "rebalance", value |-> "true"]
    /\ obs.polled = "seen"
    /\ Len(positions) = 1
    /\ CacheIs(positions[1])
    /\ currLowerBinId # obs.cacheLower

\* C4: loadInitialState() at start-up, on a pool without a position, with
\* every external call succeeding and the native balance covering the fee
\* buffer, has returned true after the balance read, at most one swap, the
\* fee check and one add, and the pool holds one position.
C4_InitialCreate ==
    /\ (pc = "li_verifyMin" /\ ~anyFail) => positions = <<>>
    /\ (pc = "main_after_load" /\ obs.found = "empty" /\ ~anyFail /\ ~FeeAlert)
          => /\ ret = [fn |-> "loadInitialState", value |-> "true"]
             /\ ops \in CreationOps
             /\ Len(positions) = 1
C4_Witness ==
    /\ pc = "main_after_load"
    /\ obs.found = "empty"
    /\ ~anyFail
    /\ ret = [fn |-> "loadInitialState", value |-> "true"]
    /\ ops = <<"balanceRead", "swap", "feeCheck", "add">>
    /\ Len(positions) = 1

\* C5: when its position query returned a non-empty list, loadInitialState()
\* has set the cached range to the bounds of the first listed position; at
\* start-up it has returned false with no swap, no add and no remove.
C5_Adopt ==
    /\ (pc \in {"main_after_load", "rb_catch_alert"} /\ obs.found = "some")
          => (Len(positions) > 0 /\ CacheIs(positions[1]))
    /\ (pc = "main_after_load" /\ obs.found = "some")
          => (ret = [fn |-> "loadInitialState", value |-> "false"] /\ ops = <<>>)
C5_Witness ==
    /\ pc = "main_after_load"
    /\ obs.found = "some"
    /\ Len(positions) = 2
    /\ CacheIs(positions[1])
    /\ ~CacheIs(positions[2])
    /\ ret = [fn |-> "loadInitialState", value |-> "false"]

\* C6: in retry(), for every attempt count, an attempt that failed with a
\* funds error is the last invocation, no delay follows it, and the error
\* raised is 'Insufficient funds'.
C6_FundsAbort ==
    \A i \in 1..Len(outcomes) :
        outcomes[i] = Err(MsgFunds)
            => /\ i = Len(outcomes)
               /\ invocations = i
               /\ delays = i - 1
               /\ pc = "retry_threw"
               /\ error = MsgInsufficientFunds
C6_Witness ==
    /\ pc = "retry_threw"
    /\ error = MsgInsufficientFunds
    /\ retries = MaxRetries
    /\ invocations = 1
    /\ delays = 0

\* C7: in retry() with attempt count N, each invocation but the last is a
\* generic failure followed by one delay; N generic failures end the call
\* with the failure of the Nth invocation, after N - 1 delays; a success at
\* invocation k ends the call with the result, after k - 1 delays.
C7_AttemptCount ==
    LET k == Len(outcomes)
        generic(i) == ~outcomes[i].ok /\ outcomes[i].msg # MsgFunds
    IN  /\ invocations = k
        /\ k <= retries
        /\ \A i \in 1..(k - 1) : generic(i)
        /\ pc = "retry" => (k < retries /\ delays = k /\ \A i \in 1..k : generic(i))
        /\ (k > 0 /\ outcomes[k].ok) => (pc = "retry_returned" /\ delays = k - 1)
        /\ (k = retries /\ generic(k))
              => (pc = "retry_threw" /\ error = outcomes[k].msg /\ delays = k - 1)
        /\ pc = "retry_returned" => outcomes[k].ok
C7_Witness ==
    /\ pc = "retry_threw"
    /\ retries = 3
    /\ invocations = 3
    /\ delays = 2
    /\ outcomes = <<Err(MsgTransient), Err(MsgBadRequest), Err(MsgNoPositions)>>
    /\ error = MsgNoPositions

\* C8 as stated: the position query never fails.
C8_Original ==
    [][(pc \in PollLabels) => (pc' \notin CatchLabels)]_vars
\* C8: the position query makes at most N attempts (3 in loadInitialState,
\* 10 after a creation); it returns at the first attempt that lists a
\* position and goes on after any other attempt but the Nth, when it returns
\* an empty list; it fails only with 'Insufficient funds', on a query that
\* failed with a funds error.
C8_Poll ==
    [][(pc \in PollLabels)
       => /\ attempt < PollBudget
          /\ obs.lastPoll # "nonempty"
          /\ obs'.lastPoll = "nonempty"
                => (pc' \notin PollLabels \cup CatchLabels /\ obs'.polled = "seen")
          /\ pc' \in CatchLabels
                => (error' = MsgInsufficientFunds /\ obs'.lastPoll = "error")
          /\ (pc' \notin PollLabels \cup CatchLabels /\ obs'.lastPoll # "nonempty")
                => (attempt = PollBudget - 1 /\ obs'.polled = "empty")
          /\ (pc' = pc /\ obs' # obs) => attempt' = attempt + 1]_vars
C8_Witness ==
    /\ pc = "rb_return_true"
    /\ obs.polled = "empty"
    /\ obs.lastPoll = "error"
    /\ Len(positions) = 1

\* C9 as stated: the range width stored by loadInitialState for an accepted
\* fraction r and bin step g is clamp(ceil(r*10000/g), 1, 34), so that it is
\* above 0 and at most 34.
C9_Width ==
    meteoraRangeInterval # None
        => LET w == meteoraRangeInterval[1]
               r == config.range
               g == poolDetails.binStep
           IN  /\ w = Max(1, Min(CeilDiv(r.n * BasisPoints, r.d * g),
                                 METERORA_MAX_BINS_PER_SIDE))
               /\ 0 < w
               /\ w <= METERORA_MAX_BINS_PER_SIDE

\* C10: with usable balances A and B and price p, rebalancePosition() asks
\* for a swap of A - (A*p+B)/(2p) of asset A when A is above (A*p+B)/(2p),
\* otherwise of B - (A*p+B)/2 of asset B when B is above (A*p+B)/2, otherwise
\* for none; it has made at most one swap when it is done.
C10_OneSwap ==
    LET A == balances.A
        B == balances.B
        p == activeBin[1].pricePerToken
        total == A * p + B
        sellA == 2 * p * A > total
        sellB == ~sellA /\ 2 * B > total
    IN  /\ pc = "rp_swap"
           => /\ sellA \/ sellB
              /\ sellA => /\ swapPlan.dir = "AtoB"
                          /\ swapPlan.amount.n * 2 * p
                                = (2 * p * A - total) * swapPlan.amount.d
              /\ sellB => /\ swapPlan.dir = "BtoA"
                          /\ swapPlan.amount.n * 2 = (2 * B - total) * swapPlan.amount.d
        /\ pc \in {"rp_newBalances", "rp_delay"}
           => /\ Count(ops, "swap") = (IF sellA \/ sellB THEN 1 ELSE 0)
              /\ (sellA \/ sellB) = (swapPlan.dir # "none")
        /\ Count(ops, "swap") <= 1
C10_Witness ==
    /\ pc = "rp_swap"
    /\ balances = [A |-> 10, B |-> 0]
    /\ activeBin = Some([binId |-> 100, pricePerToken |-> 2])
    /\ swapPlan.dir = "AtoB"
    /\ RatEq(swapPlan.amount, RatOfInt(5))

\* C11 as stated: when the usable balances are at the 50/50 split of their
\* value within an epsilon (here: neither asset exceeds its target by a
\* whole smallest unit), rebalancePosition() asks for no swap.
C11_NoSwapNearTarget ==
    (activeBin # None /\ pc \in {"rp_swap", "rp_newBalances", "rp_delay"})
        => LET A == balances.A
               B == balances.B
               p == activeBin[1].pricePerToken
               total == A * p + B
               nearTarget == (2 * p * A - total < 2 * p) /\ (2 * B - total < 2)
           IN  nearTarget => (pc # "rp_swap" /\ swapPlan.dir = "none")

\* C12: the balances getUsableBalances returned are, for the asset whose
\* symbol is 'sol' in any case, the raw balance less the fee buffer and not
\* below 0, and the raw balance for the other; none is negative.
C12_UsableBalances ==
    pc \in {"rp_getActiveBin", "rp_swap"}
        => LET isNative(sym) == sym \in {"SOL", "Sol", "sol"}
               usable(sym, mint) ==
                   IF isNative(sym)
                   THEN (IF wallet[mint] - NATIVE_TOKEN_FEE_BUFFER > 0
                         THEN wallet[mint] - NATIVE_TOKEN_FEE_BUFFER ELSE 0)
                   ELSE wallet[mint]
           IN  /\ balances.A = usable(poolDetails.assetASymbol, poolDetails.assetAMintAddress)
               /\ balances.B = usable(poolDetails.assetBSymbol, poolDetails.assetBMintAddress)
               /\ balances.A >= 0
               /\ balances.B >= 0
C12_Witness ==
    /\ pc = "rp_getActiveBin"
    /\ poolDetails.assetBSymbol = "Sol"
    /\ wallet["SOL"] = 5
    /\ wallet["USDC"] = 10
    /\ balances = [A |-> 10, B |-> 0]

\* C13: the native amount a swap or an add-liquidity call is given is at
\* most the native balance of the wallet less the fee buffer, and 0 when the
\* balance is below the buffer.
C13_ReserveKept ==
    LET raw == wallet[NativeMint]
        spendable == IF raw - NATIVE_TOKEN_FEE_BUFFER > 0
                     THEN raw - NATIVE_TOKEN_FEE_BUFFER ELSE 0
    IN  /\ (pc = "rp_swap" /\ swapPlan.dir = "AtoB" /\ pool.mint_x = NativeMint)
              => swapPlan.amount.n <= spendable * swapPlan.amount.d
        /\ (pc = "rp_swap" /\ swapPlan.dir = "BtoA" /\ pool.mint_y = NativeMint)
              => swapPlan.amount.n <= spendable * swapPlan.amount.d
        /\ (pc = "al_add" /\ pool.mint_x = NativeMint) => balances.A <= spendable
        /\ (pc = "al_add" /\ pool.mint_y = NativeMint) => balances.B <= spendable
C13_Witness ==
    /\ pc = "al_add"
    /\ pool.mint_x = NativeMint
    /\ balances.A > 0
    /\ balances.A = wallet[NativeMint] - NATIVE_TOKEN_FEE_BUFFER
    /\ "swap" \in {ops[i] : i \in 1..Len(ops)}

CycleAlert == <<"ERROR", "In rebalanceMeteora">> \in alerts
FundsFailures == {MsgInsufficientFunds, MsgFeeBuffer}
StartupFrame ==
    \/ pc \in {"main_validate", "main_construct"}
    \/ (stack # <<>> /\ stack[1] = "main_after_load")

\* C14 as stated: rebalance() never raises to the loop; a cycle in which its
\* catch caught a failure has ended with false and an ERROR alert.
C14_NeverRaises ==
    /\ ret # [fn |-> "rebalance", value |-> "threw"]
    /\ (pc = "loop_ret" /\ obs.caught # NoError)
          => (ret = [fn |-> "rebalance", value |-> "false"] /\ CycleAlert)

\* C15: the catch of rebalance() calls loadInitialState() once when the error
\* it caught says that no position exists in the pool, and not at all for
\* any other error; a cycle that failed with another error has returned
\* false without loadInitialState() having run, and one that failed with the
\* no-position error and returned has returned false after it ran.
C15_Resync ==
    /\ obs.loads <= 1
    /\ (obs.loads = 1) = (obs.caught = MsgNoPositions)
    /\ (pc = "loop_ret" /\ obs.caught \notin {NoError, MsgNoPositions})
          => (ret = [fn |-> "rebalance", value |-> "false"] /\ obs.found = "none")
    /\ (pc = "loop_ret" /\ obs.caught = MsgNoPositions /\ ret.value # "threw")
          => (ret = [fn |-> "rebalance", value |-> "false"]
              /\ obs.found \in {"empty", "some"})
C15_Witness ==
    /\ pc = "loop_ret"
    /\ obs.caught = MsgNoPositions
    /\ obs.loads = 1
    /\ obs.found = "empty"
    /\ ret = [fn |-> "rebalance", value |-> "false"]
    /\ "add" \in {ops[i] : i \in 1..Len(ops)}

\* C16 as stated: once started, the decision loop never stops: no cycle ends
\* with the loop's callback failing.
C16_LoopGoesOn ==
    pc \notin {"crashed", "dead"}

\* C17: a decision cycle starts only from the fired timer, with no call in
\* flight; the timer is set only by main after the start-up and by the loop
\* after a cycle has returned and the delay has passed; at most one
\* rebalance() is ever in flight.
C17_NoOverlap ==
    [][/\ (pc' = "rb_getActiveBin" /\ pc # "rb_getActiveBin")
             => (pc = "loop_timer" /\ stack = <<>> /\ stack' = <<"loop_ret">>)
       /\ (pc' = "loop_timer" /\ pc # "loop_timer")
             => (pc \in {"main_after_load", "loop_ret"} /\ stack' = <<>>)
       /\ Count(stack', "loop_ret") <= 1]_vars
C17_Witness ==
    /\ pc = "rb_getActiveBin"
    /\ stack = <<"loop_ret">>
    /\ Len(positions) = 1
    /\ positions[1].lowerBinId = 130
    /\ CacheIs(positions[1])

\* C18: during the start-up, a missing required variable, the default RPC
\* endpoint, unresolved pool details, a native balance below the fee buffer
\* at the fee check, and any other error, go to the catch of main, which
\* exits with status 1; the loop is not started after that.
C18_StartupExit ==
    [][/\ (StartupFrame /\ error' # error) => pc' = "main_catch"
       /\ (pc = "main_validate"
           /\ (~config.key \/ ~config.poolAddress \/ config.rpc \in {"unset", "default"}))
             => pc' = "main_catch"
       /\ (StartupFrame /\ pc = "li_getPoolDetails" /\ pc' # pc /\ ~poolDetails'.resolved)
             => pc' = "main_catch"
       /\ (StartupFrame /\ pc = "al_verify" /\ pc' # pc
           /\ wallet[NativeMint] < NATIVE_TOKEN_FEE_BUFFER)
             => pc' = "main_catch"
       /\ pc = "main_catch" => (pc' = "exited" /\ exitCode' = 1 /\ exitCode' # 0)
       /\ pc = "exited" => pc' = "exited"]_vars
C18_Witness ==
    /\ pc = "exited"
    /\ exitCode = 1
    /\ error = MsgFeeBuffer
    /\ FeeAlert
    /\ positions = <<>>

\* C19 as stated: a funds failure caught in a cycle is not reported to the
\* loop as the result false.
C19_Original ==
    obs.caught \in FundsFailures => ret # [fn |-> "rebalance", value |-> "false"]
\* C19: a funds failure in a cycle (the fee check finding the native
\* balance below the buffer, or a call failing for insufficient funds) is
\* caught by rebalance(): no add follows a failed fee check, an alert is
\* sent, loadInitialState() is not run, and the cycle returns false.
C19_FundsCaught ==
    obs.caught \in FundsFailures
        => /\ pc \in {"rb_catch_alert", "loop_ret"}
           /\ obs.loads = 0
           /\ obs.caught = MsgFeeBuffer
                 => (FeeAlert /\ "add" \notin {ops[i] : i \in 1..Len(ops)})
           /\ pc = "loop_ret"
                 => (ret = [fn |-> "rebalance", value |-> "false"] /\ CycleAlert)
C19_Witness ==
    /\ pc = "loop_ret"
    /\ obs.caught = MsgFeeBuffer
    /\ ops = <<"remove", "balanceRead", "swap">>
    /\ positions = <<>>
    /\ ret = [fn |-> "rebalance", value |-> "false"]

\* C20 as stated: whenever a remove, a swap or an add is about to be issued,
\* the pool details are resolved.
C20_DetailsBeforeOps ==
    pc \in {"rl_remove", "rp_swap", "al_add"} => poolDetails.resolved

VerifyLabels == {"al_verify", "rb_verify"}
OpsSet == {ops[i] : i \in 1..Len(ops)}

\* C21: a fee-reserve check (of rebalance() or of addLiquidity(), at start-up,
\* in a relocation or in a re-synchronisation) that reads a native balance
\* below the fee buffer ends in a catch block with the fee-buffer error, the
\* ledger untouched; add-liquidity is reached only through the check of
\* addLiquidity() having passed, and is submitted, first or again, only
\* while the native balance covers the buffer.
C21_NoAddAfterFailedCheck ==
    [][/\ (pc \in VerifyLabels /\ pc' # pc /\ wallet[NativeMint] < NATIVE_TOKEN_FEE_BUFFER)
             => /\ pc' \in CatchLabels
                /\ error' \in {MsgFeeBuffer, MsgTransient}
                /\ UNCHANGED <<ops, positions, wallet>>
       /\ (pc' = "al_getUsableBalances" /\ pc' # pc)
             => (pc = "al_verify" /\ ~(wallet[NativeMint] < NATIVE_TOKEN_FEE_BUFFER))
       /\ (pc' = "al_add" /\ pc' # pc) => pc = "al_getUsableBalances"
       /\ pc = "al_add" => ~(wallet[NativeMint] < NATIVE_TOKEN_FEE_BUFFER)]_vars
C21_Witness ==
    /\ pc = "main_catch"
    /\ error = MsgFeeBuffer
    /\ FeeAlert
    /\ wallet[NativeMint] < NATIVE_TOKEN_FEE_BUFFER
    /\ ops = <<"balanceRead", "swap">>
    /\ positions = <<>>

\* C22 as stated: no wallet balance is read after a swap before the 5 s
\* delay: when rebalancePosition() is about to read the new balances, the
\* only delay of the function still ahead, it has submitted no swap.
C22_DelayBeforeRead ==
    pc = "rp_newBalances" => (Count(ops, "swap") = 0 /\ swapPlan.dir = "none")

\* C23 as stated: the agent does not stay without a position while its
\* cycles report 'unchanged': a cycle in which every external call succeeded
\* and that found the active bin within the cached range, returning false,
\* has a position open on the pool.
C23_NoPositionUnchanged ==
    (pc = "loop_ret" /\ obs.decision = "in" /\ ~anyFail
     /\ ret = [fn |-> "rebalance", value |-> "false"])
        => Len(positions) > 0

\* C24 as stated: once the pool details are resolved, no step changes them
\* or makes them unresolved.
C24_DetailsImmutable ==
    [][poolDetails.resolved => (poolDetails' = poolDetails)]_vars

\* C25 as stated: the pool details are resolved only for a name whose split
\* on '-' gives exactly two symbols, both non-empty; for any other name
\* loadInitialState() raises, with no position operation made.
C25_TwoSymbols ==
    LET parts == Split(pool.name)
        twoSymbols == Len(parts) = 2 /\ parts[1] # "" /\ parts[2] # ""
    IN  /\ poolDetails.resolved => twoSymbols
        /\ (~twoSymbols /\ pc \notin {"main_validate", "main_construct", "li_getPoolDetails"})
              => (pc \in {"main_catch", "exited"} /\ error = MsgPoolDetails /\ ops = <<>>)

\* C26 as stated: every failure that ends the start-up, ends the loop or is
\* caught in a decision cycle has sent at least one message of type ERROR
\* to the alert sink.
C26_FailureAlerted ==
    (pc \in {"exited", "crashed"} \/ (pc = "loop_ret" /\ obs.caught # NoError))
        => \E a \in alerts : a[1] = "ERROR"

\* C27: the cached range changes only in the step of loadInitialState()
\* that adopts a listed position and in the step of addLiquidity() that
\* reads the positions back, when that step returns; both bounds are then
\* those of one position the pool holds.  Every other step (the removal,
\* the swap, the range test of a cycle, a step that fails) leaves both
\* bounds as they were.
C27_RangeWholesale ==
    [][/\ (rangeVars' # rangeVars)
             => /\ pc \in PollLabels
                /\ pc' \notin PollLabels \cup CatchLabels
                /\ obs'.polled = "seen"
                /\ \E i \in 1..Len(positions) :
                      /\ currLowerBinId' = positions[i].lowerBinId
                      /\ currUpperBinId' = positions[i].upperBinId
       /\ (pc \in {"rl_remove", "rl_delay", "rl_getUsableBalances", "rp_swap",
                   "rb_getActiveBin"} \/ pc' \in CatchLabels)
             => UNCHANGED rangeVars]_vars
C27_Witness ==
    /\ pc = "rb_return_true"
    /\ obs.polled = "seen"
    /\ Len(positions) = 1
    /\ CacheIs(positions[1])
    /\ currLowerBinId # obs.cacheLower
    /\ currUpperBinId # obs.cacheUpper

\* C28 as stated: started on a pool with at most one position, the engine
\* submits add-liquidity only while no position is open on the pool, so that
\* at most one position is ever open.
C28_AtMostOnePosition ==
    /\ Len(positions) <= 1
    /\ pc = "al_add" => positions = <<>>

\* C29 as stated: a cycle returns true exactly when an add-liquidity
\* succeeded in it, and a cycle that returned false has created and removed
\* no position.
C29_TrueIffCreated ==
    (pc = "loop_ret" /\ ret.fn = "rebalance" /\ ret.value \in {"true", "false"})
        => /\ (ret.value = "true") = ("add" \in OpsSet)
           /\ ret.value = "false" => "remove" \notin OpsSet
====
